---- MODULE Spec2Model ----
(***************************************************************************)
(* TOEFL Study Coach (src/toefl_chatbot_app.py): the plan generator, the   *)
(* self-test runner and the feedback log, with the three UI handlers that  *)
(* call them.                                                              *)
(*                                                                         *)
(* Texts are strings; a string is read character by character with SubSeq  *)
(* and Len.  The source's literals hold a few non-ASCII byte sequences     *)
(* (icons in front of the section headers, a dash in "30..45" and          *)
(* "5..10", the marks after the verdicts); they are written here as the    *)
(* bracketed ASCII placeholders [target], [compass], [calendar],           *)
(* [planner], [ok], [warn] and [dash].                                     *)
(***************************************************************************)
EXTENDS Integers, Sequences, FiniteSets, TLC

(***************************************************************************)
(* Text primitives (Python str operations used by the source)              *)
(***************************************************************************)

\* s[i-1:i]: the i-th character (1-based) as a one-character string.
CharAt(s, i) == SubSeq(s, i, i)

\* s.startswith(p)
StartsWith(s, p) == Len(p) <= Len(s) /\ SubSeq(s, 1, Len(p)) = p

\* s.endswith(p)
EndsWith(s, p) == Len(p) <= Len(s) /\ SubSeq(s, Len(s) - Len(p) + 1, Len(s)) = p

\* p in s
Contains(s, p) ==
    \E i \in 1..(Len(s) - Len(p) + 1) : SubSeq(s, i, i + Len(p) - 1) = p

SetMin(S) == CHOOSE m \in S : \A x \in S : m <= x

SetMax(S) == CHOOSE m \in S : \A x \in S : x <= m

\* The characters str.strip() and int() treat as white space (ASCII part).
Whitespace == {" ", "\t", "\n", "\r", "\f"}

\* s.strip(): s without its leading and trailing white space.
Strip(s) ==
    LET keep == {i \in 1..Len(s) : CharAt(s, i) \notin Whitespace}
    IN  IF keep = {} THEN "" ELSE SubSeq(s, SetMin(keep), SetMax(keep))

\* sep.join(parts)
RECURSIVE Join(_, _)
Join(parts, sep) ==
    IF Len(parts) = 0 THEN ""
    ELSE IF Len(parts) = 1 THEN parts[1]
    ELSE parts[1] \o sep \o Join(Tail(parts), sep)

\* text.split("\n"): the lines of a text.
RECURSIVE SplitAt(_, _, _)
SplitAt(s, breaks, start) ==
    IF breaks = {} THEN << SubSeq(s, start, Len(s)) >>
    ELSE LET m == SetMin(breaks)
         IN  << SubSeq(s, start, m - 1) >> \o SplitAt(s, breaks \ {m}, m + 1)

Lines(s) == SplitAt(s, {i \in 1..Len(s) : CharAt(s, i) = "\n"}, 1)

(***************************************************************************)
(* int(score_input) and str(score)                                         *)
(***************************************************************************)

Digits == "0123456789"

IsDigit(c) == \E d \in 1..10 : CharAt(Digits, d) = c

DigitValue(c) == (CHOOSE d \in 1..10 : CharAt(Digits, d) = c) - 1

\* The digit part of an integer literal: digits, with single underscores
\* allowed between two digits.
IsDigitPart(t) ==
    /\ Len(t) >= 1
    /\ \A i \in 1..Len(t) :
          \/ IsDigit(CharAt(t, i))
          \/ /\ CharAt(t, i) = "_"
             /\ 1 < i /\ i < Len(t)
             /\ IsDigit(CharAt(t, i - 1)) /\ IsDigit(CharAt(t, i + 1))

RECURSIVE DigitPartValue(_, _, _)
DigitPartValue(t, i, acc) ==
    IF i > Len(t) THEN acc
    ELSE IF CharAt(t, i) = "_" THEN DigitPartValue(t, i + 1, acc)
    ELSE DigitPartValue(t, i + 1, 10 * acc + DigitValue(CharAt(t, i)))

\* a faulty parse: the leading digits are taken and the rest is ignored.
ParseInt_leading_digits(s) ==
    LET t     == Strip(s)
        stops == {i \in 1..(Len(t) + 1) : i = Len(t) + 1 \/ ~IsDigit(CharAt(t, i))}
        k     == SetMin(stops) - 1
    IN  IF k >= 1
        THEN [ok |-> TRUE, value |-> DigitPartValue(SubSeq(t, 1, k), 1, 0)]
        ELSE [ok |-> FALSE, value |-> 0]

\* int() on a text t without surrounding white space: one leading sign is
\* allowed, the rest must be a digit part.  ok = FALSE is the ValueError.
ParseStripped(t) ==
    LET signed == Len(t) >= 1 /\ CharAt(t, 1) \in {"+", "-"}
        body   == IF signed THEN SubSeq(t, 2, Len(t)) ELSE t
    IN  IF IsDigitPart(body)
        THEN [ok |-> TRUE,
              value |-> IF signed /\ CharAt(t, 1) = "-"
                        THEN 0 - DigitPartValue(body, 1, 0)
                        ELSE DigitPartValue(body, 1, 0)]
        ELSE [ok |-> FALSE, value |-> 0]

\* int(s) for a str s, base 10: surrounding white space is dropped first.
ParseInt(s) == ParseStripped(Strip(s))

RECURSIVE NatToStr(_)
NatToStr(n) ==
    IF n < 10 THEN CharAt(Digits, n + 1)
    ELSE NatToStr(n \div 10) \o CharAt(Digits, (n % 10) + 1)

\* str(n) and f"{n}" for an int n.
IntToStr(n) == IF n < 0 THEN "-" \o NatToStr(0 - n) ELSE NatToStr(n)

(***************************************************************************)
(* Core logic                                                              *)
(***************************************************************************)

Buckets == {"100+", "90-99", "80-89", "<80"}

\* a faulty _bucket: the top threshold tested with > instead of >=.
_bucket_strict_top(score) ==
    IF score > 100 THEN "100+"
    ELSE IF score >= 90 THEN "90-99"
    ELSE IF score >= 80 THEN "80-89"
    ELSE "<80"

_bucket(score) ==
    IF score >= 100 THEN "100+"
    ELSE IF score >= 90 THEN "90-99"
    ELSE IF score >= 80 THEN "80-89"
    ELSE "<80"

weekly_focus(bucket) ==
    CASE bucket = "100+" ->
           << "Full-length mock tests (timed) 2x/week",
              "Speaking drills with recording & self-review",
              "Advanced academic vocabulary consolidation",
              "Refine Writing Task 1/2 structures under time" >>
      [] bucket = "90-99" ->
           << "Targeted Reading strategy practice (skimming/scanning)",
              "Daily Speaking prompts with 60-sec responses",
              "Listening note-taking for lectures & conversations",
              "Writing with clear thesis + example paragraphs" >>
      [] bucket = "80-89" ->
           << "Grammar refreshers on common TOEFL errors",
              "Reading: paragraph main idea & inference practice",
              "Listening: short dialogues & key-point capture",
              "Speaking: 3-sentence structured responses" >>
      [] bucket = "<80" ->
           << "Understand TOEFL format & scoring basics",
              "Foundation vocabulary (15/day) with spaced review",
              "Short listening clips with transcript support",
              "Simple paragraph writing & feedback checklist" >>

daily_templates(bucket) ==
    CASE bucket = "100+" ->
           << "Reading: 1 long passage (timed) + error log",
              "Listening: 1 lecture + 1 conversation (timed)",
              "Speaking: 2 prompts (record, self-critique)",
              "Writing: Task 2 essay (25 min) outline + body",
              "Vocabulary: 20 academic words + retrieval practice",
              "Mock: mini test (Reading+Listening) (timed)",
              "Review: wrong answers & patterns; light speaking" >>
      [] bucket = "90-99" ->
           << "Reading: main idea & inference (1 passage)",
              "Listening: note-taking practice (1 lecture)",
              "Speaking: 1 independent prompt (record)",
              "Writing: intro+thesis+1 example paragraph",
              "Vocabulary: 15 words; quiz yourself",
              "Mock: section mix (30[dash]45 min)",
              "Review & plan next week" >>
      [] bucket = "80-89" ->
           << "Grammar set: tenses, subject-verb agreement",
              "Reading: 1 short passage (slow + annotate)",
              "Listening: 1 short convo (pause & repeat)",
              "Speaking: 3-sentence prompt (intro-reason-example)",
              "Writing: short paragraph (topic, support, concluding)",
              "Vocabulary: 12 words; flashcards",
              "Weekly review: error list update" >>
      [] bucket = "<80" ->
           << "Learn test sections & timing basics",
              "Vocabulary: 15 everyday words + examples",
              "Listening: short clip + read transcript",
              "Reading: 1 short text; underline keywords",
              "Speaking: describe a picture (30s)",
              "Writing: 5-sentence paragraph (topic/support)",
              "Review & light mock (un-timed)" >>

\* a faulty table: bucket "80-89" is given the daily tasks of "<80".
_plan_by_bucket_shared_daily(bucket) ==
    [weekly_focus |-> weekly_focus(bucket),
     daily |-> daily_templates(IF bucket = "80-89" THEN "<80" ELSE bucket)]

_plan_by_bucket(bucket) ==
    [weekly_focus |-> weekly_focus(bucket), daily |-> daily_templates(bucket)]

\* The keys of the adjustments dictionary.
KnownFocus == {"Balanced", "Reading", "Listening", "Speaking", "Writing", "Vocabulary"}

adjustments(key) ==
    CASE key = "Balanced"   -> ""
      [] key = "Reading"    -> " Emphasize Reading tasks; add 5[dash]10 extra minutes to reading activities."
      [] key = "Listening"  -> " Emphasize Listening tasks; repeat audio segments once for deeper note-taking."
      [] key = "Speaking"   -> " Emphasize Speaking tasks; add one extra speaking prompt on Days 3 & 7."
      [] key = "Writing"    -> " Emphasize Writing tasks; add a 10-minute outline drill on Days 4 & 5."
      [] key = "Vocabulary" -> " Emphasize Vocabulary; add spaced-recall mini-quizzes daily."

\* a faulty lookup: the key is matched without regard to case.
tweak_ignoring_case(focus_area) ==
    IF focus_area \in KnownFocus THEN adjustments(focus_area)
    ELSE IF focus_area = "reading" THEN adjustments("Reading")
    ELSE ""

\* adjustments.get(focus_area, "")
tweak(focus_area) ==
    IF focus_area \in KnownFocus THEN adjustments(focus_area) ELSE ""

GuidanceMessage == "Please enter your target score as a number (e.g., 90)."

PlanLabel == "[planner] 7-Day Plan:"

header(score, b, focus_area) ==
    << "[target] Target Score: " \o IntToStr(score) \o "  (Bucket: " \o b \o ")",
       "[compass] Focus: " \o focus_area,
       "[calendar] Weekly Focus:" >>

weekly_lines(plan) ==
    [i \in 1..Len(plan.weekly_focus) |-> "- " \o plan.weekly_focus[i]]

\* a faulty loop: enumerate without start=1.
days_from_zero(plan, focus_area) ==
    [idx \in 1..Len(plan.daily) |->
        "Day " \o IntToStr(idx - 1) \o ": " \o plan.daily[idx] \o tweak(focus_area)]

days(plan, focus_area) ==
    [idx \in 1..Len(plan.daily) |->
        "Day " \o IntToStr(idx) \o ": " \o plan.daily[idx] \o tweak(focus_area)]

\* generate_plan from b = _bucket(score) on, for the parsed score.
plan_text(score, focus_area) ==
    LET b    == _bucket(score)
        plan == _plan_by_bucket(b)
    IN  Join(header(score, b, focus_area) \o weekly_lines(plan)
               \o << "", PlanLabel >> \o days(plan, focus_area),
             "\n")

\* try: score = int(score_input); except: return the guidance message.
handle_parsed(parsed, focus_area) ==
    IF ~parsed.ok THEN GuidanceMessage ELSE plan_text(parsed.value, focus_area)

generate_plan(score_input, focus_area) ==
    handle_parsed(ParseInt(score_input), focus_area)

(***************************************************************************)
(* Success criteria self-tests                                             *)
(*                                                                         *)
(* run_self_tests calls the plan generator on fixed inputs.  To exercise   *)
(* its FAIL paths the report is written over impl, the plan generator the  *)
(* handlers are bound to: "unmodified" is generate_plan itself, the others *)
(* are seeded faults of it.  Only SpecSelfTest starts with a fault.        *)
(***************************************************************************)

\* text[text.index("\n") + 1:], the text without its first line.
DropFirstLine(text) ==
    LET breaks == {i \in 1..Len(text) : CharAt(text, i) = "\n"}
    IN  IF breaks = {} THEN "" ELSE SubSeq(text, SetMin(breaks) + 1, Len(text))

\* text[:text.rindex("\n")], the text without its last line.
DropLastLine(text) ==
    LET breaks == {i \in 1..Len(text) : CharAt(text, i) = "\n"}
    IN  IF breaks = {} THEN "" ELSE SubSeq(text, 1, SetMax(breaks) - 1)

Implementations ==
    {"unmodified", "always_guidance", "plan_for_bad_input", "shifted_bucket",
     "six_days", "no_target_line"}

\* The text a seeded fault hands to generate_plan in place of score_input:
\* "plan_for_bad_input" turns a text that does not parse into "0",
\* "shifted_bucket" lowers the score by 10.
seeded_input(gen, parsed, score_input) ==
    IF gen = "plan_for_bad_input" /\ ~parsed.ok THEN "0"
    ELSE IF gen = "shifted_bucket" /\ parsed.ok THEN IntToStr(parsed.value - 10)
    ELSE score_input

\* What a seeded fault returns for the text generate_plan produced:
\* "always_guidance" the guidance message, "six_days" a plan without its
\* last line, "no_target_line" a plan without its first line.
seeded_output(gen, parsed, text) ==
    IF gen = "always_guidance" THEN GuidanceMessage
    ELSE IF gen = "six_days" /\ parsed.ok THEN DropLastLine(text)
    ELSE IF gen = "no_target_line" /\ parsed.ok THEN DropFirstLine(text)
    ELSE text

seeded_plan(gen, parsed, score_input, focus_area) ==
    seeded_output(gen, parsed,
                  generate_plan(seeded_input(gen, parsed, score_input), focus_area))

plan_under_test(gen, score_input, focus_area) ==
    IF gen = "unmodified" THEN generate_plan(score_input, focus_area)
    ELSE seeded_plan(gen, ParseInt(score_input), score_input, focus_area)

Verdict(ok) == IF ok THEN "PASS" ELSE "FAIL"

functionality_scores == << 75, 85, 92, 104 >>

\* ok = ("7-Day Plan" in txt) and ("Target Score" in txt)
has_plan_headers(txt) == Contains(txt, "7-Day Plan") /\ Contains(txt, "Target Score")

\* 1) Functionality, one check per score of the loop
functionality_ok(gen, s) ==
    has_plan_headers(plan_under_test(gen, IntToStr(s), "Balanced"))

\* The scores of the texts a, b, c and the label each must show.
pers_cases == { << "82", "Bucket: 80-89" >>, << "95", "Bucket: 90-99" >>,
                << "105", "Bucket: 100+" >> }

\* 2) Personalization
pers_ok(gen) ==
    \A probe \in pers_cases :
        Contains(plan_under_test(gen, probe[1], "Balanced"), probe[2])

\* 3) Robustness
robust_ok(gen) ==
    Contains(plan_under_test(gen, "ninety", "Balanced"),
             "Please enter your target score as a number")

sample(gen) == plan_under_test(gen, "90", "Balanced")

\* 4) Consistency: count 7 days
days_ok(gen) ==
    \A i \in 1..7 : Contains(sample(gen), "Day " \o IntToStr(i) \o ":")

\* 5) Basic usability: contains headers
head_ok(gen) ==
    \A h \in {"Weekly Focus:", "Target Score", "Focus:"} : Contains(sample(gen), h)

\* The outcomes of the checks, in the order the code runs them.
check_outcomes(gen) ==
    [k \in 1..Len(functionality_scores) |-> functionality_ok(gen, functionality_scores[k])]
    \o << pers_ok(gen), robust_ok(gen), days_ok(gen), head_ok(gen) >>

\* a faulty log: one Functionality line for the whole loop.
logs_one_per_criterion(gen) ==
    << "[Functionality] valid scores: "
          \o Verdict(\A k \in 1..Len(functionality_scores) :
                        functionality_ok(gen, functionality_scores[k])),
       "[Personalization] different buckets detected: " \o Verdict(pers_ok(gen)),
       "[Robustness] non-numeric input message: " \o Verdict(robust_ok(gen)),
       "[Consistency] 7 days present: " \o Verdict(days_ok(gen)),
       "[Usability] headers included: " \o Verdict(head_ok(gen)) >>

\* The lines appended to logs, in order.
logs(gen) ==
    [k \in 1..Len(functionality_scores) |->
        "[Functionality] score=" \o IntToStr(functionality_scores[k]) \o ": "
            \o Verdict(functionality_ok(gen, functionality_scores[k]))]
    \o << "[Personalization] different buckets detected: " \o Verdict(pers_ok(gen)),
          "[Robustness] non-numeric input message: " \o Verdict(robust_ok(gen)),
          "[Consistency] 7 days present: " \o Verdict(days_ok(gen)),
          "[Usability] headers included: " \o Verdict(head_ok(gen)) >>

\* passed = True, then passed = passed and ok after every check.
RECURSIVE AndAll(_, _, _)
AndAll(oks, i, acc) ==
    IF i > Len(oks) THEN acc ELSE AndAll(oks, i + 1, acc /\ oks[i])

\* a faulty accumulation, passed = ok: the last check decides.
passed_last_wins(gen) ==
    check_outcomes(gen)[Len(check_outcomes(gen))]

passed(gen) == AndAll(check_outcomes(gen), 1, TRUE)

summary(gen) ==
    IF passed(gen) THEN "OVERALL: PASS [ok]" ELSE "OVERALL: CHECK NEEDED [warn]"

self_test_report(gen) == summary(gen) \o "\n" \o Join(logs(gen), "\n")

run_self_tests == self_test_report("unmodified")

\* The report per plan generator, tabulated: it depends on nothing else.
self_test_reports ==
    [unmodified         |-> self_test_report("unmodified"),
     always_guidance    |-> self_test_report("always_guidance"),
     plan_for_bad_input |-> self_test_report("plan_for_bad_input"),
     shifted_bucket     |-> self_test_report("shifted_bucket"),
     six_days           |-> self_test_report("six_days"),
     no_target_line     |-> self_test_report("no_target_line")]

(***************************************************************************)
(* Feedback logging                                                        *)
(*                                                                         *)
(* feedback.csv is modelled at the level of its records: a row is the      *)
(* tuple of its five fields as text.  The quoting DataFrame.to_csv applies *)
(* to a field is pandas' and is not modelled.                              *)
(***************************************************************************)

ThanksMessage == "Thanks! Your feedback was saved."

\* The column names, the keys of the row dictionary in insertion order.
CsvHeader ==
    << "timestamp", "target_score_input", "helpful_rating_1to5",
       "clarity_rating_1to5", "comments" >>

Pad2(n) == IF n < 10 THEN "0" \o IntToStr(n) ELSE IntToStr(n)

\* datetime.isoformat(timespec="seconds") of the clock reading t, in seconds
\* after midnight of a fixed day.
IsoFormat(t) ==
    "2025-01-01T" \o Pad2(t \div 3600) \o ":" \o Pad2((t \div 60) % 60)
        \o ":" \o Pad2(t % 60)

\* The row dictionary save_feedback builds, as the record to_csv writes.
feedback_row(t, score, helpful, clarity, comments) ==
    << IsoFormat(t), score, IntToStr(helpful), IntToStr(clarity), Strip(comments) >>

AbsentFile == [exists |-> FALSE, rows |-> << >>]

\* df.to_csv(FEEDBACK_PATH, index=False): mode "w", header and the row.
write_new(row) == [exists |-> TRUE, rows |-> << CsvHeader, row >>]

\* df.to_csv(FEEDBACK_PATH, mode="a", header=False, index=False)
append_row(f, row) == [exists |-> TRUE, rows |-> Append(f.rows, row)]

(***************************************************************************)
(* State                                                                   *)
(***************************************************************************)

MaxScore == 105
MaxNegScore == 3
MaxCalls == 3
AppMaxCalls == 2
MaxClock == 1

ScoreValues == (0 - MaxNegScore)..MaxScore

\* Texts the score box can hold: str(s) of every score in range, and texts
\* that are not the canonical form of an integer.
ScoreInputs ==
    {IntToStr(s) : s \in ScoreValues}
    \cup {"ninety", "abc", "", "9.5", " 90 ", "+95", "085", "1_00", "9_", "-",
          "8 5", "90\n", "1e2"}

\* Values of the focus key: the dropdown's choices and texts outside them.
FocusInputs == KnownFocus \cup {"", "reading", "Grammar", "Pacing\nDay 8: rest"}

\* The (score, focus) inputs of the specifications that mix the handlers.
AppInputs == { << "", "Balanced" >>, << "85", "Balanced" >>, << "85", "Reading" >> }

\* Arguments of save_feedback: score, helpful, clarity, comments.
FeedbackInputs ==
    { << "90", 5, 4, " good " >>, << "", 1, 5, "" >>, << "abc", 3, 2, "\tok, thanks\n" >> }

\* A save_feedback call: its arguments and the clock reading it gets.
FeedbackCalls == FeedbackInputs \X (0..MaxClock)

AppFeedbackCalls == { << << "90", 5, 4, " good " >>, 0 >> }

Workers == {"w1", "w2"}

VARIABLES
    impl,        \* the plan generator the handlers are bound to
    score_in,    \* score_in textbox
    focus_in,    \* focus_in dropdown
    plan_out,    \* plan_out textbox
    test_out,    \* test_out textbox
    file,        \* feedback.csv
    pc,          \* per request of save_feedback: "idle", "write"
    local,       \* per request: the row built and the result of os.path.exists
    fb_status,   \* fb_status textbox of the request's session
    op,          \* history: the handler that took the last step
    memo,        \* history: every (score_input, focus_area, text, log existed) of a plan request
    submitted,   \* history: the save_feedback calls, in call order
    written      \* history: the requests whose write has completed, in order

vars ==
    << impl, score_in, focus_in, plan_out, test_out, file, pc, local, fb_status,
       op, memo, submitted, written >>

plan_vars == << score_in, focus_in, plan_out, memo >>

feedback_vars == << file, pc, local, fb_status, submitted, written >>

NoLocal == [row |-> << >>, exists |-> FALSE, call |-> 0]

InitCommon ==
    /\ plan_out = ""
    /\ test_out = ""
    /\ file = AbsentFile
    /\ pc = [w \in Workers |-> "idle"]
    /\ local = [w \in Workers |-> NoLocal]
    /\ fb_status = [w \in Workers |-> ""]
    /\ op = "none"
    /\ memo = {}
    /\ submitted = << >>
    /\ written = << >>

\* The application as launched: empty score box, focus "Balanced".
Init ==
    /\ impl = "unmodified"
    /\ score_in = ""
    /\ focus_in = "Balanced"
    /\ InitCommon

\* The plan tab with any contents of its two inputs.
InitPlan ==
    /\ impl = "unmodified"
    /\ score_in \in ScoreInputs
    /\ focus_in \in FocusInputs
    /\ InitCommon

\* The application bound to a plan generator under test.
InitSelfTest ==
    /\ impl \in Implementations
    /\ \E inp \in AppInputs : score_in = inp[1] /\ focus_in = inp[2]
    /\ InitCommon

\* The user fills the score box and picks a focus.
EditInputs ==
    /\ \E inp \in AppInputs :
          /\ inp # << score_in, focus_in >>
          /\ score_in' = inp[1]
          /\ focus_in' = inp[2]
    /\ op' = "edit"
    /\ UNCHANGED << impl, plan_out, test_out, memo >>
    /\ UNCHANGED feedback_vars

\* a faulty handler: the plan request also resets the feedback log.
GeneratePlan_resets_log ==
    /\ plan_out' = plan_under_test(impl, score_in, focus_in)
    /\ memo' = memo \cup {<< score_in, focus_in, plan_out', file.exists >>}
    /\ op' = "generate_plan"
    /\ file' = AbsentFile
    /\ UNCHANGED << impl, score_in, focus_in, test_out >>
    /\ UNCHANGED << pc, local, fb_status, submitted, written >>

\* btn.click(fn=generate_plan, inputs=[score_in, focus_in], outputs=plan_out)
GeneratePlan ==
    /\ plan_out' = plan_under_test(impl, score_in, focus_in)
    /\ memo' = memo \cup {<< score_in, focus_in, plan_out', file.exists >>}
    /\ op' = "generate_plan"
    /\ UNCHANGED << impl, score_in, focus_in, test_out >>
    /\ UNCHANGED feedback_vars

\* test_btn.click(fn=run_self_tests, inputs=None, outputs=test_out)
RunSelfTests ==
    /\ test_out' = self_test_reports[impl]
    /\ op' = "run_self_tests"
    /\ UNCHANGED << impl >>
    /\ UNCHANGED plan_vars
    /\ UNCHANGED feedback_vars

\* save_feedback up to os.path.exists: the row is built from the arguments
\* and the clock, then the existence of the file is read.  only_when_quiet
\* restricts the call to moments when no other request is in progress.
CheckExists(w, calls, cap, only_when_quiet) ==
    /\ pc[w] = "idle"
    /\ Len(submitted) < cap
    /\ only_when_quiet => \A v \in Workers : pc[v] = "idle"
    /\ \E c \in calls :
          LET args == c[1]
              t    == c[2]
          IN  /\ local' = [local EXCEPT ![w] =
                              [row    |-> feedback_row(t, args[1], args[2], args[3], args[4]),
                               exists |-> file.exists,
                               call   |-> Len(submitted) + 1]]
              /\ submitted' = Append(submitted, [worker |-> w, time |-> t, args |-> args])
    /\ pc' = [pc EXCEPT ![w] = "write"]
    /\ fb_status' = [fb_status EXCEPT ![w] = ""]
    /\ op' = "save_feedback"
    /\ UNCHANGED << impl, test_out, file, written >>
    /\ UNCHANGED plan_vars

\* a faulty write: the header is written on every call.
WriteFeedback_always_header(w) ==
    /\ pc[w] = "write"
    /\ file' = [exists |-> TRUE, rows |-> file.rows \o << CsvHeader, local[w].row >>]
    /\ written' = Append(written, local[w].call)
    /\ pc' = [pc EXCEPT ![w] = "idle"]
    /\ local' = [local EXCEPT ![w] = NoLocal]
    /\ fb_status' = [fb_status EXCEPT ![w] = ThanksMessage]
    /\ op' = "save_feedback"
    /\ UNCHANGED << impl, test_out, submitted >>
    /\ UNCHANGED plan_vars

\* save_feedback from the branch on: one of the two to_csv calls, then the
\* confirmation is returned.
WriteFeedback(w) ==
    /\ pc[w] = "write"
    /\ file' = IF local[w].exists THEN append_row(file, local[w].row)
               ELSE write_new(local[w].row)
    /\ written' = Append(written, local[w].call)
    /\ pc' = [pc EXCEPT ![w] = "idle"]
    /\ local' = [local EXCEPT ![w] = NoLocal]
    /\ fb_status' = [fb_status EXCEPT ![w] = ThanksMessage]
    /\ op' = "save_feedback"
    /\ UNCHANGED << impl, test_out, submitted >>
    /\ UNCHANGED plan_vars

(***************************************************************************)
(* Specifications                                                          *)
(***************************************************************************)

\* The application: the three handlers, feedback requests running
\* concurrently.
Next ==
    \/ EditInputs
    \/ GeneratePlan
    \/ RunSelfTests
    \/ \E w \in Workers : CheckExists(w, AppFeedbackCalls, AppMaxCalls, FALSE)
    \/ \E w \in Workers : WriteFeedback(w)

Spec == Init /\ [][Next]_vars

\* The plan tab over every input in range.
NextPlan == GeneratePlan

SpecPlan == InitPlan /\ [][NextPlan]_vars

\* The plan tab and the self-tests bound to a plan generator under test.
NextSelfTest ==
    \/ EditInputs
    \/ GeneratePlan
    \/ RunSelfTests

SpecSelfTest == InitSelfTest /\ [][NextSelfTest]_vars

\* The feedback tab with its requests running concurrently.
NextFeedback ==
    \/ \E w \in Workers : CheckExists(w, FeedbackCalls, MaxCalls, FALSE)
    \/ \E w \in Workers : WriteFeedback(w)

SpecFeedback == Init /\ [][NextFeedback]_vars

\* The feedback tab with the calls executed one after another.
NextSeq ==
    \/ \E w \in Workers : CheckExists(w, FeedbackCalls, MaxCalls, TRUE)
    \/ \E w \in Workers : WriteFeedback(w)

SpecSeq == Init /\ [][NextSeq]_vars

(***************************************************************************)
(* Properties                                                              *)
(***************************************************************************)

\* In SpecPlan the inputs never change: a non-empty plan_out is the text
\* generate_plan returned for (score_in, focus_in).
PlanShown == plan_out # ""

BucketLabels(text) == {b \in Buckets : Contains(text, "Bucket: " \o b)}

\* C1: for every integer score s, generate_plan(str(s)) reports exactly one
\* bucket label, the one the thresholds give: s >= 100 "100+", 90..99
\* "90-99", 80..89 "80-89", s < 80 (negatives included) "<80"; the four
\* cases cover every integer and never overlap.
C1_BucketByThreshold ==
    \A s \in ScoreValues :
        (PlanShown /\ score_in = IntToStr(s) /\ focus_in = "Balanced") =>
            /\ Cardinality(BucketLabels(plan_out)) = 1
            /\ (s >= 100) => Contains(plan_out, "Bucket: 100+")
            /\ (90 <= s /\ s <= 99) => Contains(plan_out, "Bucket: 90-99")
            /\ (80 <= s /\ s <= 89) => Contains(plan_out, "Bucket: 80-89")
            /\ (s < 80) => Contains(plan_out, "Bucket: <80")
            /\ Cardinality({c \in {"a", "b", "c", "d"} :
                              \/ c = "a" /\ s >= 100
                              \/ c = "b" /\ 90 <= s /\ s <= 99
                              \/ c = "c" /\ 80 <= s /\ s <= 89
                              \/ c = "d" /\ s < 80}) = 1

C1_Witness ==
    /\ score_in = "100" /\ focus_in = "Balanced"
    /\ BucketLabels(plan_out) = {"100+"}

\* Texts int() rejects: the examples of the claim and some near misses.
NonIntegerTexts == {"ninety", "abc", "", "9.5", "9_", "-", "8 5", "1e2"}

\* C2: for every score_input that does not parse as an integer and any
\* focus_area, generate_plan returns exactly the guidance message: no
\* bucket, no header, no Day line.
C2_GuidanceOnly ==
    (PlanShown /\ (score_in \in NonIntegerTexts \/ ~ParseInt(score_in).ok)) =>
        /\ plan_out = GuidanceMessage
        /\ plan_out = "Please enter your target score as a number (e.g., 90)."
        /\ BucketLabels(plan_out) = {}
        /\ ~Contains(plan_out, "Target Score")
        /\ ~Contains(plan_out, "7-Day Plan")
        /\ ~Contains(plan_out, "Day 1:")
        /\ Len(Lines(plan_out)) = 1

C2_Witness ==
    /\ score_in = "9.5" /\ focus_in = "Reading"
    /\ plan_out = GuidanceMessage

\* A line of the form "Day N: ...": "Day ", one or more digits, a colon.
IsDayLine(line) ==
    /\ StartsWith(line, "Day ")
    /\ \E c \in 6..Len(line) :
          /\ CharAt(line, c) = ":"
          /\ \A i \in 5..(c - 1) : IsDigit(CharAt(line, i))

DayLineIndexes(lines) == {i \in 1..Len(lines) : IsDayLine(lines[i])}

\* The label line is at index at, behind four bullets and a blank line, and
\* the seven lines after it are Day 1 .. Day 7.
PlanSectionAt(lines, at) ==
    /\ at >= 6 /\ Len(lines) >= at + 7
    /\ \A i \in (at - 5)..(at - 2) : StartsWith(lines[i], "- ")
    /\ lines[at - 1] = ""
    /\ Contains(lines[at], "7-Day Plan")
    /\ \A n \in 1..7 : StartsWith(lines[at + n], "Day " \o IntToStr(n) \o ": ")

HasLineBreak(text) == Contains(text, "\n") \/ Contains(text, "\r")

\* C3 as claimed: for every integer-parseable score and every focus_area,
\* the output holds exactly 7 lines "Day N: ...", N = 1..7 in order, and
\* they directly follow the "7-Day Plan" label.
C3_SevenDayLines_AnyFocus ==
    (PlanShown /\ ParseInt(score_in).ok) =>
        \E at \in 1..Len(Lines(plan_out)) :
            /\ PlanSectionAt(Lines(plan_out), at)
            /\ DayLineIndexes(Lines(plan_out)) = (at + 1)..(at + 7)

\* C3, amended: the same for every focus_area that holds no line break;
\* the output then has 16 lines, the label is line 9 and the Day lines are
\* lines 10 to 16.
C3_SevenDayLines ==
    (PlanShown /\ ParseInt(score_in).ok /\ ~HasLineBreak(focus_in)) =>
        /\ Len(Lines(plan_out)) = 16
        /\ PlanSectionAt(Lines(plan_out), 9)
        /\ DayLineIndexes(Lines(plan_out)) = 10..16

C3_Witness ==
    /\ score_in = "-3" /\ focus_in = "Grammar"
    /\ PlanShown
    /\ DayLineIndexes(Lines(plan_out)) = 10..16

\* The bucket of a score, by the thresholds of the claims.
ThresholdBucket(s) ==
    CASE s >= 100 -> "100+"
      [] 90 <= s /\ s <= 99 -> "90-99"
      [] 80 <= s /\ s <= 89 -> "80-89"
      [] s < 80 -> "<80"

\* The last seven lines of a plan: its Day lines.
DayLine(lines, n) == lines[Len(lines) - 7 + n]

\* C4: the focus adjustment lookup is total.  For Reading, Listening,
\* Speaking, Writing and Vocabulary each of the 7 Day lines is the template
\* task followed by that focus area's adjustment; for "Balanced" and for any
\* focus_area outside the known set each Day line ends with the bare
\* template task; in every case a normal plan is returned.
C4_FocusAdjustment ==
    (PlanShown /\ ParseInt(score_in).ok) =>
        LET lines == Lines(plan_out)
            tasks == daily_templates(ThresholdBucket(ParseInt(score_in).value))
            emphasized == focus_in \in {"Reading", "Listening", "Speaking", "Writing", "Vocabulary"}
        IN  /\ plan_out # GuidanceMessage
            /\ Len(lines) >= 16
            /\ Contains(lines[Len(lines) - 7], "7-Day Plan")
            /\ \A n \in 1..7 :
                  /\ StartsWith(DayLine(lines, n), "Day " \o IntToStr(n) \o ": ")
                  /\ emphasized =>
                        /\ adjustments(focus_in) # ""
                        /\ DayLine(lines, n) =
                              "Day " \o IntToStr(n) \o ": " \o tasks[n] \o adjustments(focus_in)
                  /\ ~emphasized =>
                        DayLine(lines, n) = "Day " \o IntToStr(n) \o ": " \o tasks[n]

C4_Witness ==
    /\ score_in = "95" /\ focus_in = "reading"
    /\ PlanShown
    /\ EndsWith(DayLine(Lines(plan_out), 7), "Review & plan next week")

FirstLine(text) == Lines(text)[1]

\* The Target Score line with the echoed number n cut out.
WithoutScore(line, n) ==
    LET at == SetMin({i \in 1..Len(line) : StartsWith(SubSeq(line, i, Len(line)), "Target Score: ")})
        k  == at + Len("Target Score: ") - 1
    IN  IF SubSeq(line, k + 1, k + Len(IntToStr(n))) = IntToStr(n)
        THEN << SubSeq(line, 1, k), SubSeq(line, k + Len(IntToStr(n)) + 1, Len(line)) >>
        ELSE << >>

\* The four weekly-focus bullets of a plan, counted from its end.
BulletLine(lines, n) == lines[Len(lines) - 13 + n]

\* C10: the plan depends on the score only through its bucket.  Two integer
\* scores of one bucket, with the same focus_area, give outputs that are
\* identical except for the number on the Target Score line; two scores of
\* different buckets give outputs that differ in the bucket label, in every
\* weekly-focus bullet and in every Day line.
C10_BucketDeterminesPlan ==
    (PlanShown /\ ParseInt(score_in).ok) =>
        LET s1   == ParseInt(score_in).value
            mine == Lines(plan_out)
            rest == DropFirstLine(plan_out)
        IN  \A s2 \in ScoreValues :
                LET other  == generate_plan(IntToStr(s2), focus_in)
                    theirs == Lines(other)
                IN  IF ThresholdBucket(s1) = ThresholdBucket(s2)
                    THEN /\ rest = DropFirstLine(other)
                         /\ WithoutScore(mine[1], s1) # << >>
                         /\ WithoutScore(mine[1], s1) = WithoutScore(theirs[1], s2)
                    ELSE /\ BucketLabels(mine[1]) # BucketLabels(theirs[1])
                         /\ \A n \in 1..4 : BulletLine(mine, n) # BulletLine(theirs, n)
                         /\ \A n \in 1..7 : DayLine(mine, n) # DayLine(theirs, n)

C10_Witness ==
    /\ score_in = "85" /\ focus_in = "Reading"
    /\ PlanShown
    /\ DropFirstLine(plan_out) = DropFirstLine(generate_plan("80", "Reading"))
    /\ DayLine(Lines(plan_out), 1) # DayLine(Lines(generate_plan("79", "Reading")), 1)

ReportShown == test_out # ""

CheckLines(report) == Tail(Lines(report))

CriterionNames ==
    << "[Functionality]", "[Personalization]", "[Robustness]", "[Consistency]", "[Usability]" >>

StatesVerdict(line) == EndsWith(line, ": PASS") \/ EndsWith(line, ": FAIL")

\* C8 as claimed: the report is the overall line followed by exactly five
\* check lines, in the order Functionality, Personalization, Robustness,
\* Consistency, Usability, each naming its check and stating PASS or FAIL.
C8_FiveCheckLines ==
    ReportShown =>
        /\ Len(CheckLines(test_out)) = 5
        /\ \A k \in 1..5 :
              /\ StartsWith(CheckLines(test_out)[k], CriterionNames[k])
              /\ StatesVerdict(CheckLines(test_out)[k])

\* C8, amended: the report is the overall line followed by exactly eight
\* check lines: four Functionality lines, one per score 75, 85, 92, 104 in
\* that order, then one line each for Personalization, Robustness,
\* Consistency and Usability, each naming its check and stating PASS or FAIL.
C8_EightCheckLines ==
    ReportShown =>
        LET checks == CheckLines(test_out)
        IN  /\ StartsWith(FirstLine(test_out), "OVERALL: ")
            /\ Len(checks) = 8
            /\ StartsWith(checks[1], "[Functionality] score=75: ")
            /\ StartsWith(checks[2], "[Functionality] score=85: ")
            /\ StartsWith(checks[3], "[Functionality] score=92: ")
            /\ StartsWith(checks[4], "[Functionality] score=104: ")
            /\ \A k \in 2..5 : StartsWith(checks[k + 3], CriterionNames[k])
            /\ \A k \in 1..8 : StatesVerdict(checks[k])

C8_Witness ==
    /\ ReportShown
    /\ impl = "six_days"
    /\ Len(CheckLines(test_out)) = 8
    /\ EndsWith(CheckLines(test_out)[7], ": FAIL")
    /\ EndsWith(CheckLines(test_out)[8], ": PASS")

\* r is c without its leading and trailing white space.
IsStrippedFormOf(r, c) ==
    /\ r = "" \/ (CharAt(r, 1) \notin Whitespace /\ CharAt(r, Len(r)) \notin Whitespace)
    /\ \E i \in 1..(Len(c) + 1) :
          /\ SubSeq(c, i, i + Len(r) - 1) = r
          /\ \A j \in 1..(i - 1) : CharAt(c, j) \in Whitespace
          /\ \A j \in (i + Len(r))..Len(c) : CharAt(c, j) \in Whitespace

\* The row is the one the call must leave in the store: the score text
\* verbatim, the two ratings, the comments stripped.
IsRowOf(row, call) ==
    /\ Len(row) = 5
    /\ row[1] = IsoFormat(call.time)
    /\ row[2] = call.args[1]
    /\ ParseInt(row[3]).ok /\ ParseInt(row[3]).value = call.args[2]
    /\ ParseInt(row[4]).ok /\ ParseInt(row[4]).value = call.args[3]
    /\ IsStrippedFormOf(row[5], call.args[4])

\* C5: from an absent file, after n >= 1 save_feedback calls executed one
\* after another the store is one header row followed by exactly n data
\* rows in call order; the header is written by the first call only, and
\* the k-th data row holds the k-th call's score text verbatim, its two
\* ratings and its comments without leading and trailing white space.
C5_SequentialLayout ==
    LET n == Len(written)
    IN  /\ n = 0 => file = AbsentFile
        /\ n >= 1 =>
              /\ file.exists
              /\ Len(file.rows) = n + 1
              /\ file.rows[1] =
                    << "timestamp", "target_score_input", "helpful_rating_1to5",
                       "clarity_rating_1to5", "comments" >>
              /\ \A k \in 1..n :
                    /\ written[k] = k
                    /\ file.rows[k + 1] # file.rows[1]
                    /\ IsRowOf(file.rows[k + 1], submitted[k])

C5_Witness ==
    /\ Len(written) = 3
    /\ Len(file.rows) = 4
    /\ submitted[2].args[4] = " good "
    /\ file.rows[3][5] = "good"
    /\ submitted[3].args[4] = "\tok, thanks\n"

\* C6 as claimed: under every interleaving of concurrent save_feedback
\* calls the store stays append-only: the row of every call whose write has
\* completed is in the store, so the store holds one data row per completed
\* write and differs from the sequential layout by repeated headers only.
C6_AppendOnly ==
    /\ \A k \in 1..Len(written) :
          \E i \in 1..Len(file.rows) : IsRowOf(file.rows[i], submitted[written[k]])
    /\ Cardinality({i \in 1..Len(file.rows) : file.rows[i] # CsvHeader}) = Len(written)

====
